---- MODULE Spec2Model ----
(***************************************************************************)
(* Model of src/populate_database.py: the Direct Mapper (shipping_data_0), *)
(* the Join-Aggregate Reconciler (shipping_data_1 + shipping_data_2) and   *)
(* the two appends to the shipments table.                                 *)
(*                                                                         *)
(* A DataFrame is a record [cols, rows]: cols is the sequence of column    *)
(* labels (labels may repeat after a rename), rows is the sequence of rows *)
(* and every row is a sequence of cells aligned with cols.  A missing cell *)
(* (an empty CSV field, NaN in pandas) is the value NA.                    *)
(***************************************************************************)
EXTENDS Integers, Sequences, FiniteSets, TLC

VARIABLES pc, sheet0, sheet1, sheet2, sheet0_clean, shipment_summary,
          shipments, tableExists, before, appends, error

vars == <<pc, sheet0, sheet1, sheet2, sheet0_clean, shipment_summary,
          shipments, tableExists, before, appends, error>>

\* ------------------------------------------------------------------ bounds
MaxRowsA == 2
MaxRowsB == 2
MaxRowsC == 2
MaxVariantRows == 1

\* ------------------------------------------------------- DataFrame helpers
NA == "NaN"

NoFrame == [cols |-> <<>>, rows |-> <<>>]

Labels(frame) == {frame.cols[i] : i \in DOMAIN frame.cols}

\* the positions of the columns labelled name, in frame order
Positions(cols, name) == SelectSeq([i \in DOMAIN cols |-> i], LAMBDA i : cols[i] = name)

RECURSIVE Flatten(_)
Flatten(ss) == IF ss = <<>> THEN <<>> ELSE Head(ss) \o Flatten(Tail(ss))

RECURSIVE SumSeq(_)
SumSeq(s) == IF s = <<>> THEN 0 ELSE Head(s) + SumSeq(Tail(s))

HasDuplicateLabels(frame) ==
    \E i, j \in DOMAIN frame.cols : i # j /\ frame.cols[i] = frame.cols[j]

\* the cell of a row under the first column labelled name
Cell(frame, row, name) == row[Head(Positions(frame.cols, name))]

\* the rename mapping of lines 41-46; a label the mapping does not name is kept
MapperLabel(c) ==
    CASE c = "origin_warehouse" -> "origin"
      [] c = "destination_store" -> "destination"
      [] c = "product" -> "product_name"
      [] c = "product_quantity" -> "quantity"
      [] OTHER -> c

\* the rename mapping of lines 64-68
ReconcilerLabel(c) ==
    CASE c = "origin_warehouse" -> "origin"
      [] c = "destination_store" -> "destination"
      [] c = "product" -> "product_name"
      [] OTHER -> c

\* the six columns of the shipments table, in schema order (lines 49 and 84)
TableColumns ==
    <<"origin", "destination", "product_name", "quantity", "on_time", "driver_identifier">>

\* the grouping key of line 75
GroupKeys == <<"origin", "destination", "product_name">>

\* DataFrame.__getitem__ with a list of labels: KeyError when a label is absent
SelectFails(frame, names) == \E k \in DOMAIN names : names[k] \notin Labels(frame)

\* ... and otherwise, for each requested label in turn, every column carrying it
SelectColumns(frame, names) ==
    LET idx == Flatten([k \in DOMAIN names |-> Positions(frame.cols, names[k])])
    IN  [cols |-> [k \in DOMAIN idx |-> frame.cols[idx[k]]],
         rows |-> [r \in DOMAIN frame.rows |->
                     [k \in DOMAIN idx |-> frame.rows[r][idx[k]]]]]

\* DataFrame.__setitem__ with a scalar: overwrites the column(s) so labelled,
\* or adds the column at the end
SetColumn(frame, name, value) ==
    IF name \in Labels(frame)
    THEN [frame EXCEPT !.rows = [r \in DOMAIN frame.rows |->
             [i \in DOMAIN frame.cols |->
                 IF frame.cols[i] = name THEN value ELSE frame.rows[r][i]]]]
    ELSE [cols |-> Append(frame.cols, name),
          rows |-> [r \in DOMAIN frame.rows |-> Append(frame.rows[r], value)]]

\* pd.merge(left, right, on=key): KeyError when either frame lacks the key
MergeFails(left, right, key) == key \notin Labels(left) \/ key \notin Labels(right)

\* a merge that pairs every left row with every right row, equal keys or not
MergeCross(left, right, key) ==
    LET overlap == (Labels(left) \cap Labels(right)) \ {key}
        rkeep == SelectSeq([i \in DOMAIN right.cols |-> i],
                           LAMBDA i : right.cols[i] # key)
        lcols == [i \in DOMAIN left.cols |->
                    IF left.cols[i] \in overlap THEN left.cols[i] \o "_x"
                                                ELSE left.cols[i]]
        rcols == [m \in DOMAIN rkeep |->
                    IF right.cols[rkeep[m]] \in overlap THEN right.cols[rkeep[m]] \o "_y"
                                                        ELSE right.cols[rkeep[m]]]
        n == Len(left.rows)
        m == Len(right.rows)
        all == [k \in 1..(n * m) |-> <<((k - 1) \div m) + 1, ((k - 1) % m) + 1>>]
    IN  [cols |-> lcols \o rcols,
         rows |-> [k \in DOMAIN all |->
                     left.rows[all[k][1]] \o
                     [j \in DOMAIN rkeep |-> right.rows[all[k][2]][rkeep[j]]]]]

\* pd.merge(left, right, on=key), how='inner': one row per pair of a left row
\* and a right row with equal keys, in the order of the left rows and, for one
\* left row, of the right rows (pandas documents the inner join as keeping the
\* order of the left keys); the columns are the left columns followed by the
\* right columns without the key, and a label the two frames share gets the
\* suffix _x on the left and _y on the right
Merge(left, right, key) ==
    LET overlap == (Labels(left) \cap Labels(right)) \ {key}
        rkeep == SelectSeq([i \in DOMAIN right.cols |-> i],
                           LAMBDA i : right.cols[i] # key)
        lcols == [i \in DOMAIN left.cols |->
                    IF left.cols[i] \in overlap THEN left.cols[i] \o "_x"
                                                ELSE left.cols[i]]
        rcols == [m \in DOMAIN rkeep |->
                    IF right.cols[rkeep[m]] \in overlap THEN right.cols[rkeep[m]] \o "_y"
                                                        ELSE right.cols[rkeep[m]]]
        n == Len(left.rows)
        m == Len(right.rows)
        all == [k \in 1..(n * m) |-> <<((k - 1) \div m) + 1, ((k - 1) % m) + 1>>]
        hit == SelectSeq(all, LAMBDA p :
                   Cell(left, left.rows[p[1]], key) = Cell(right, right.rows[p[2]], key))
    IN  [cols |-> lcols \o rcols,
         rows |-> [k \in DOMAIN hit |->
                     left.rows[hit[k][1]] \o
                     [j \in DOMAIN rkeep |-> right.rows[hit[k][2]][rkeep[j]]]]]

\* Python's order of the strings that occur in the grouping columns
StringOrder == <<"S1", "W1", "W2", "Widget", "X0">>

Rank(v) == CHOOSE i \in DOMAIN StringOrder : StringOrder[i] = v

\* tuple order of the group keys: the first differing component decides
KeyLess(a, b) ==
    \E i \in DOMAIN a :
        /\ Rank(a[i]) < Rank(b[i])
        /\ \A j \in 1..(i - 1) : a[j] = b[j]

RECURSIVE SortKeys(_)
SortKeys(S) ==
    IF S = {} THEN <<>>
    ELSE LET least == CHOOSE a \in S : \A b \in S \ {a} : KeyLess(a, b)
         IN  <<least>> \o SortKeys(S \ {least})

KeyOfRow(frame, row) == [k \in DOMAIN GroupKeys |-> Cell(frame, row, GroupKeys[k])]

\* groupby(keys): KeyError when a key label is absent, ValueError ("Grouper
\* not 1-dimensional") when two columns carry it; agg: KeyError when an
\* aggregated column is absent
GroupAggFails(frame) ==
    \/ \E k \in DOMAIN GroupKeys : Len(Positions(frame.cols, GroupKeys[k])) # 1
    \/ "quantity" \notin Labels(frame)
    \/ "on_time" \notin Labels(frame)

\* agg 'sum' over the quantity cells of a group
AggSum(frame, members) ==
    SumSeq([i \in DOMAIN members |-> Cell(frame, members[i], "quantity")])

\* agg 'first' over the on_time cells of a group: GroupBy.first skips missing
\* cells, so it is the first cell that is not NA, and NA when all are
AggFirst(frame, members) ==
    LET present == SelectSeq(members, LAMBDA row : Cell(frame, row, "on_time") # NA)
    IN  IF present = <<>> THEN NA ELSE Cell(frame, Head(present), "on_time")

\* groupby(keys).agg({quantity: sum, on_time: first}).reset_index(): rows with a
\* missing key cell belong to no group (dropna=True), the groups come out
\* sorted by key (sort=True), the rows of a group keep their order
GroupAgg(frame) ==
    LET full == SelectSeq(frame.rows, LAMBDA row :
                    \A k \in DOMAIN GroupKeys : Cell(frame, row, GroupKeys[k]) # NA)
        keys == SortKeys({KeyOfRow(frame, full[i]) : i \in DOMAIN full})
        Members(g) == SelectSeq(full, LAMBDA row : KeyOfRow(frame, row) = g)
    IN  [cols |-> GroupKeys \o <<"quantity", "on_time">>,
         rows |-> [g \in DOMAIN keys |->
                     keys[g] \o <<AggSum(frame, Members(keys[g])),
                                  AggFirst(frame, Members(keys[g]))>>]]

\* ------------------------------------------------------ the two transforms
\* lines 41-46
Sheet0Mapped(frame) ==
    [frame EXCEPT !.cols = [i \in DOMAIN frame.cols |-> MapperLabel(frame.cols[i])]]

\* line 49 raises KeyError
MapperFails(frame) == SelectFails(Sheet0Mapped(frame), TableColumns)

\* lines 41-49
Sheet0Clean(frame) == SelectColumns(Sheet0Mapped(frame), TableColumns)

\* lines 64-68
MergedMapped(frame) ==
    [frame EXCEPT !.cols = [i \in DOMAIN frame.cols |-> ReconcilerLabel(frame.cols[i])]]

\* line 71
UnitQuantity == 1

\* a unit assignment that leaves a quantity column the merge already carries
WithQuantityKept(frame) ==
    IF "quantity" \in Labels(frame) THEN frame ELSE SetColumn(frame, "quantity", UnitQuantity)

\* a unit assignment that starts the count at nothing
WithQuantityZero(frame) == SetColumn(frame, "quantity", UnitQuantity - 1)

WithQuantity(frame) == SetColumn(frame, "quantity", UnitQuantity)

\* line 81
DriverPlaceholder == "unknown"

\* a back-fill that leaves the driver missing
BackFillMissing(frame) == SetColumn(frame, "driver_identifier", NA)

BackFill(frame) == SetColumn(frame, "driver_identifier", DriverPlaceholder)

\* lines 57-71
MergedWithQuantity(left, right) ==
    WithQuantity(MergedMapped(Merge(left, right, "shipment_identifier")))

\* lines 57-84 raise: the merge, the groupby or the agg
ReconcilerFails(left, right) ==
    \/ MergeFails(left, right, "shipment_identifier")
    \/ GroupAggFails(MergedWithQuantity(left, right))

\* the exception lines 57-84 raise: KeyError from the merge or for an absent
\* label, ValueError for a grouping label two columns carry
ReconcilerError(left, right) ==
    IF MergeFails(left, right, "shipment_identifier") THEN "KeyError"
    ELSE IF HasDuplicateLabels(MergedMapped(Merge(left, right, "shipment_identifier")))
         THEN "ValueError"
         ELSE "KeyError"

\* lines 57-84
ShipmentSummary(left, right) ==
    SelectColumns(BackFill(GroupAgg(MergedWithQuantity(left, right))), TableColumns)

\* --------------------------------------------------------------- the table
\* to_sql(if_exists='append') on a missing table creates it from the frame's
\* columns, and CREATE TABLE rejects a repeated column name
ToSqlFails(frame, exists) == ~exists /\ HasDuplicateLabels(frame)

\* the rows INSERT stores: each table column takes the cell of the first frame
\* column that carries its name (SQLite keeps the first value bound to a column
\* that the INSERT names twice)
ToSqlRows(frame) ==
    [r \in DOMAIN frame.rows |->
        [c \in {TableColumns[k] : k \in DOMAIN TableColumns} |->
            Cell(frame, frame.rows[r], c)]]

\* a failed to_sql that keeps the first row it had inserted
TableAfterPartialAppend(table, frame) ==
    IF frame.rows = <<>> THEN table ELSE Append(table, ToSqlRows(frame)[1])

\* a to_sql that fails rolls its transaction back: the table is as it was
TableAfterFailedAppend(table, frame) == table

\* to_sql(if_exists='replace'): the frame's rows take the table's place
TableReplaced(table, rows) == rows

\* to_sql(if_exists='append') that succeeds: the frame's rows follow the rows
\* the table held
TableAfterAppend(table, rows) == table \o rows

\* ------------------------------------------------------------ input frames
\* A cell of shipping_data_0 is fixed by its column and the row's seed <<w, q>>.
CellA(c, seed) ==
    CASE c = "origin_warehouse" -> seed[1]
      [] c = "product_quantity" -> seed[2]
      [] c = "destination_store" -> "S1"
      [] c = "product" -> "Widget"
      [] c = "on_time" -> "False"
      [] c = "driver_identifier" -> "D9"
      [] c = "origin" -> "X0"
      [] OTHER -> "n"

SeedsA == {"W1", "W2"} \X {0, 5}

RequiredA ==
    <<"origin_warehouse", "destination_store", "product", "product_quantity",
      "on_time", "driver_identifier">>

SchemasA ==
    { RequiredA,
      RequiredA \o <<"note">>,
      <<"origin">> \o RequiredA,
      <<"origin", "destination_store", "product", "product_quantity", "on_time",
        "driver_identifier">>,
      <<"destination_store", "product", "product_quantity", "on_time",
        "driver_identifier">>,
      <<"origin_warehouse", "destination_store", "product", "product_quantity",
        "driver_identifier">> }

SeqsUpTo(S, n) == UNION {[1..k -> S] : k \in 0..n}

FrameA(schema, seeds) ==
    [cols |-> schema,
     rows |-> [r \in DOMAIN seeds |-> [i \in DOMAIN schema |-> CellA(schema[i], seeds[r])]]]

\* sheet0 as read: columns of one of the schemas, at most MaxRowsA rows
ReadA ==
    \E sch \in SchemasA, ss \in SeqsUpTo(SeedsA, MaxRowsA) : sheet0 = FrameA(sch, ss)

DefaultA == FrameA(RequiredA, << <<"W2", 5>> >>)

\* A cell of shipping_data_1 or shipping_data_2 is fixed by its column and the
\* row's seed <<id, k>>.
CellBC(c, seed) ==
    CASE c = "shipment_identifier" -> seed[1]
      [] c = "origin_warehouse" -> <<"W1", "W2", NA>>[seed[2]]
      [] c = "on_time" -> <<"True", "False", NA>>[seed[2]]
      [] c = "destination_store" -> "S1"
      [] c = "product" -> "Widget"
      [] c = "driver_identifier" -> "D9"
      [] c = "quantity" -> 7
      [] c = "origin" -> "X0"
      [] OTHER -> "n"

SeedsBC == {1, 2} \X {1, 2, 3}

BaseB == <<"shipment_identifier", "origin_warehouse", "destination_store", "product">>

BaseC == <<"shipment_identifier", "on_time">>

BasePair == <<BaseB, BaseC>>

\* column layouts the Reconciler accepts: a quantity of sheet1's own, a
\* driver_identifier on both sides, and on_time on the sheet1 side with the
\* warehouse, store and driver on the sheet2 side
AcceptedPairs ==
    { <<BaseB \o <<"quantity">>, BaseC>>,
      <<BaseB \o <<"driver_identifier">>, BaseC \o <<"driver_identifier">> >>,
      <<<<"shipment_identifier", "product", "on_time">>,
        <<"shipment_identifier", "origin_warehouse", "destination_store",
          "driver_identifier">> >> }

\* column layouts it raises on: no join key, a column already named origin,
\* on_time on both sides
RejectedPairs ==
    { <<<<"origin_warehouse", "destination_store", "product">>, BaseC>>,
      <<BaseB \o <<"origin">>, BaseC>>,
      <<BaseB \o <<"on_time">>, BaseC>> }

VariantPairs == AcceptedPairs \cup RejectedPairs

FrameBC(schema, seeds) ==
    [cols |-> schema,
     rows |-> [r \in DOMAIN seeds |-> [i \in DOMAIN schema |-> CellBC(schema[i], seeds[r])]]]

\* sheet1 and sheet2 as read: columns of one of the pairs, at most nb and nc rows
ReadBC(pairs, nb, nc) ==
    \E sp \in pairs, sb \in SeqsUpTo(SeedsBC, nb), sc \in SeqsUpTo(SeedsBC, nc) :
        /\ sheet1 = FrameBC(sp[1], sb)
        /\ sheet2 = FrameBC(sp[2], sc)

DefaultBC ==
    <<FrameBC(BaseB, << <<1, 1>>, <<2, 1>> >>), FrameBC(BaseC, << <<1, 1>>, <<2, 1>> >>)>>

OldRow ==
    [origin |-> "W0", destination |-> "S0", product_name |-> "Old", quantity |-> 3,
     on_time |-> "True", driver_identifier |-> "D0"]

\* ------------------------------------------------------------ the pipeline
NoError == <<"", "">>

InitRest ==
    /\ sheet0_clean = NoFrame
    /\ shipment_summary = NoFrame
    /\ \/ tableExists = FALSE /\ shipments = <<>>
       \/ tableExists = TRUE /\ shipments = <<OldRow>>
    /\ before = shipments
    /\ appends = <<>>
    /\ error = NoError

\* the state after lines 24-26: the three sheets are read
Init ==
    /\ pc = "connect"
    /\ \/ /\ ReadA
          /\ sheet1 = DefaultBC[1]
          /\ sheet2 = DefaultBC[2]
       \/ /\ sheet0 = DefaultA
          /\ ReadBC(VariantPairs \cup {BasePair}, MaxVariantRows, MaxVariantRows)
    /\ InitRest

Fail(stage, kind) ==
    /\ pc' = "failed"
    /\ error' = <<stage, kind>>

\* lines 34-35
Connect ==
    /\ pc = "connect"
    /\ \/ pc' = "map" /\ error' = error
       \/ Fail("connect", "OperationalError")
    /\ UNCHANGED <<sheet0, sheet1, sheet2, sheet0_clean, shipment_summary,
                   shipments, tableExists, before, appends>>

\* lines 41-49
MapSheet0 ==
    /\ pc = "map"
    /\ IF MapperFails(sheet0)
       THEN Fail("map", "KeyError") /\ UNCHANGED sheet0_clean
       ELSE /\ sheet0_clean' = Sheet0Clean(sheet0)
            /\ pc' = "append0"
            /\ error' = error
    /\ UNCHANGED <<sheet0, sheet1, sheet2, shipment_summary, shipments, tableExists,
                   before, appends>>

\* line 52
AppendSheet0 ==
    /\ pc = "append0"
    /\ \/ /\ ~ToSqlFails(sheet0_clean, tableExists)
          /\ shipments' = TableAfterAppend(shipments, ToSqlRows(sheet0_clean))
          /\ tableExists' = TRUE
          /\ appends' = Append(appends, "sheet0_clean")
          /\ pc' = "reconcile"
          /\ error' = error
       \/ /\ Fail("append0", "OperationalError")
          /\ shipments' = TableAfterFailedAppend(shipments, sheet0_clean)
          /\ UNCHANGED <<tableExists, appends>>
    /\ UNCHANGED <<sheet0, sheet1, sheet2, sheet0_clean, shipment_summary, before>>

\* lines 57-84
Reconcile ==
    /\ pc = "reconcile"
    /\ IF ReconcilerFails(sheet1, sheet2)
       THEN Fail("reconcile", ReconcilerError(sheet1, sheet2)) /\ UNCHANGED shipment_summary
       ELSE /\ shipment_summary' = ShipmentSummary(sheet1, sheet2)
            /\ pc' = "append1"
            /\ error' = error
    /\ UNCHANGED <<sheet0, sheet1, sheet2, sheet0_clean, shipments, tableExists,
                   before, appends>>

\* line 90
AppendSummary ==
    /\ pc = "append1"
    /\ \/ /\ ~ToSqlFails(shipment_summary, tableExists)
          /\ shipments' = TableAfterAppend(shipments, ToSqlRows(shipment_summary))
          /\ tableExists' = TRUE
          /\ appends' = Append(appends, "shipment_summary")
          /\ pc' = "commit"
          /\ error' = error
       \/ /\ Fail("append1", "OperationalError")
          /\ shipments' = TableAfterFailedAppend(shipments, shipment_summary)
          /\ UNCHANGED <<tableExists, appends>>
    /\ UNCHANGED <<sheet0, sheet1, sheet2, sheet0_clean, shipment_summary, before>>

\* lines 95-96
Commit ==
    /\ pc = "commit"
    /\ pc' = "done"
    /\ UNCHANGED <<sheet0, sheet1, sheet2, sheet0_clean, shipment_summary,
                   shipments, tableExists, before, appends, error>>

Next ==
    \/ Connect
    \/ MapSheet0
    \/ AppendSheet0
    \/ Reconcile
    \/ AppendSummary
    \/ Commit

Spec == Init /\ [][Next]_vars

\* The Reconciler as a function of its two inputs: every pair of sheets within
\* the bounds, and the one step that computes lines 57-84 on it.
InitReconciler ==
    /\ pc = "reconcile"
    /\ sheet0 = NoFrame
    /\ \/ ReadBC({BasePair}, MaxRowsB, MaxRowsC)
       \/ ReadBC(AcceptedPairs, MaxVariantRows, MaxRowsC)
       \/ ReadBC(RejectedPairs, MaxVariantRows, MaxVariantRows)
    /\ sheet0_clean = NoFrame
    /\ shipment_summary = NoFrame
    /\ tableExists = TRUE
    /\ shipments = <<>>
    /\ before = <<>>
    /\ appends = <<"sheet0_clean">>
    /\ error = NoError

NextReconciler == Reconcile

SpecReconciler == InitReconciler /\ [][NextReconciler]_vars

\* ------------------------------------------------------------------ claims
\* where the run stands
MapperDone ==
    \/ pc \in {"append0", "reconcile", "append1", "commit", "done"}
    \/ pc = "failed" /\ error[1] \in {"append0", "reconcile", "append1"}

MapperFailed == pc = "failed" /\ error[1] = "map"

SummaryReady ==
    \/ pc \in {"append1", "commit", "done"}
    \/ pc = "failed" /\ error[1] = "append1"

ReconcilerFailed == pc = "failed" /\ error[1] = "reconcile"

\* the shipments records a frame of the six schema columns stands for
RecordsOf(frame) ==
    [r \in DOMAIN frame.rows |->
        [origin |-> Cell(frame, frame.rows[r], "origin"),
         destination |-> Cell(frame, frame.rows[r], "destination"),
         product_name |-> Cell(frame, frame.rows[r], "product_name"),
         quantity |-> Cell(frame, frame.rows[r], "quantity"),
         on_time |-> Cell(frame, frame.rows[r], "on_time"),
         driver_identifier |-> Cell(frame, frame.rows[r], "driver_identifier")]]

\* the inner join, from the two sheets: the pairs <<i, j>> of a row of sheet1
\* and a row of sheet2 with the same shipment_identifier
JoinedPairs ==
    {p \in (DOMAIN sheet1.rows) \X (DOMAIN sheet2.rows) :
        Cell(sheet1, sheet1.rows[p[1]], "shipment_identifier")
            = Cell(sheet2, sheet2.rows[p[2]], "shipment_identifier")}

\* the cell of joined row p that ends up under the label t: the sheet1 column
\* renamed to t when there is one, the sheet2 column otherwise
PairField(p, t) ==
    LET c1 == SelectSeq([i \in DOMAIN sheet1.cols |-> i],
                        LAMBDA i : ReconcilerLabel(sheet1.cols[i]) = t)
        c2 == SelectSeq([i \in DOMAIN sheet2.cols |-> i],
                        LAMBDA i : ReconcilerLabel(sheet2.cols[i]) = t)
    IN  IF c1 # <<>> THEN sheet1.rows[p[1]][Head(c1)] ELSE sheet2.rows[p[2]][Head(c2)]

PairKey(p) == <<PairField(p, "origin"), PairField(p, "destination"),
                PairField(p, "product_name")>>

OutKey(r) == <<shipment_summary.rows[r][1], shipment_summary.rows[r][2],
               shipment_summary.rows[r][3]>>

PairsOfKey(k) == {p \in JoinedPairs : PairKey(p) = k}

\* the first joined row of a group: the least sheet1 row, then the least
\* sheet2 row
FirstPair(k) ==
    CHOOSE p \in PairsOfKey(k) :
        \A q \in PairsOfKey(k) : p[1] < q[1] \/ (p[1] = q[1] /\ p[2] <= q[2])

\* C1: whenever shipping_data_0 carries the six required fields, the Mapper
\* does not fail, its output has exactly the six schema columns and as many rows
\* as the input, in the same order, and row i holds input row i's
\* origin_warehouse, destination_store, product, product_quantity, on_time and
\* driver_identifier; every other input field is discarded.
C1_MapperRowPreservation ==
    ((MapperDone \/ MapperFailed)
        /\ \A k \in DOMAIN RequiredA : RequiredA[k] \in Labels(sheet0))
    => /\ ~MapperFailed
       /\ sheet0_clean.cols = TableColumns
       /\ Len(sheet0_clean.rows) = Len(sheet0.rows)
       /\ \A i \in DOMAIN sheet0.rows : \A k \in DOMAIN RequiredA :
             sheet0_clean.rows[i][k] = Cell(sheet0, sheet0.rows[i], RequiredA[k])

\* C2: every row of the Reconciler output has as quantity the number of joined
\* rows (pairs of a sheet1 row and a sheet2 row with the same
\* shipment_identifier) that have its (origin, destination, product_name),
\* whatever quantity column the sheets carry themselves.
C2_AggregationSumLaw ==
    SummaryReady =>
        \A r \in DOMAIN shipment_summary.rows :
            shipment_summary.rows[r][4] = Cardinality(PairsOfKey(OutKey(r)))

C2_Witness ==
    /\ SummaryReady
    /\ "quantity" \in Labels(sheet1)
    /\ \E r \in DOMAIN shipment_summary.rows : shipment_summary.rows[r][4] = 2

\* C3: no two rows of the Reconciler output share (origin, destination,
\* product_name), and every (origin, destination, product_name) of a joined row
\* is the key of exactly one output row.
C3_OneRowPerKey ==
    SummaryReady =>
        /\ \A r, q \in DOMAIN shipment_summary.rows : OutKey(r) = OutKey(q) => r = q
        /\ \A p \in JoinedPairs :
              Cardinality({r \in DOMAIN shipment_summary.rows : OutKey(r) = PairKey(p)}) = 1

\* the two sheets carry the fields of the fragmented source: the join key on
\* both sides, each of origin_warehouse, destination_store, product and on_time
\* on exactly one side, and no column already named as a schema column
CarriesFragmentFields ==
    /\ "shipment_identifier" \in Labels(sheet1) \cap Labels(sheet2)
    /\ \A c \in {"origin_warehouse", "destination_store", "product", "on_time"} :
          (c \in Labels(sheet1)) # (c \in Labels(sheet2))
    /\ \A c \in {"origin", "destination", "product_name"} :
          c \notin Labels(sheet1) \cup Labels(sheet2)

DisjointIds ==
    \A i \in DOMAIN sheet1.rows : \A j \in DOMAIN sheet2.rows :
        Cell(sheet1, sheet1.rows[i], "shipment_identifier")
            # Cell(sheet2, sheet2.rows[j], "shipment_identifier")

\* C4: every row of the Reconciler output has the key of some joined row, so a
\* row of either sheet whose shipment_identifier the other sheet lacks
\* contributes nothing; and when the two sheets carry the fragment fields and
\* share no shipment_identifier, the Reconciler does not fail and its output is
\* the empty sequence.
C4_JoinExclusion ==
    /\ SummaryReady =>
          \A r \in DOMAIN shipment_summary.rows : PairsOfKey(OutKey(r)) # {}
    /\ ((SummaryReady \/ ReconcilerFailed) /\ CarriesFragmentFields /\ DisjointIds)
          => (SummaryReady /\ shipment_summary.rows = <<>>)

C4_Witness ==
    /\ SummaryReady
    /\ CarriesFragmentFields
    /\ DisjointIds
    /\ sheet1.rows # <<>>
    /\ sheet2.rows # <<>>
    /\ shipment_summary.rows = <<>>

\* C5: every row of the Reconciler output has the on_time of the first joined
\* row of its group, in the order of the joined rows.
C5_FirstSeenOnTime ==
    SummaryReady =>
        \A r \in DOMAIN shipment_summary.rows :
            shipment_summary.rows[r][5] = PairField(FirstPair(OutKey(r)), "on_time")

\* C6: the table is appended to with the Mapper output and then with the
\* Reconciler output, never the other way round; the rows it held before the
\* run stay where they were; and after a successful run it holds those rows,
\* then the Mapper rows, then the Reconciler rows, from exactly two appends.
C6_AppendOrder ==
    /\ appends \in {<<>>, <<"sheet0_clean">>, <<"sheet0_clean", "shipment_summary">>}
    /\ Len(shipments) >= Len(before)
    /\ SubSeq(shipments, 1, Len(before)) = before
    /\ pc = "done" =>
          /\ appends = <<"sheet0_clean", "shipment_summary">>
          /\ shipments = before \o RecordsOf(sheet0_clean) \o RecordsOf(shipment_summary)

C6_Witness ==
    /\ pc = "done"
    /\ before # <<>>
    /\ sheet0_clean.rows # <<>>
    /\ shipment_summary.rows # <<>>

\* C7: a run that fails before or in the first append leaves the table as it
\* was; a run that fails in the Reconciler or in the second append leaves the
\* table with the whole Mapper output appended and nothing else; a run that
\* ends well has both outputs appended; and at no point does the table hold a
\* part of an output or the Reconciler output without the Mapper output.
C7_FailurePersistence ==
    /\ (pc = "failed" /\ error[1] \in {"connect", "map", "append0"})
          => shipments = before
    /\ (pc = "failed" /\ error[1] \in {"reconcile", "append1"})
          => shipments = before \o RecordsOf(sheet0_clean)
    /\ pc = "done"
          => shipments = before \o RecordsOf(sheet0_clean) \o RecordsOf(shipment_summary)
    /\ pc \in {"connect", "map", "append0"} => shipments = before
    /\ pc \in {"reconcile", "append1"} => shipments = before \o RecordsOf(sheet0_clean)

C7_Witness ==
    /\ pc = "failed"
    /\ error[1] = "reconcile"
    /\ Len(shipments) > Len(before)

\* C8: whenever shipping_data_0 lacks one of the six required source fields,
\* the Mapper fails and nothing is appended to the table.
C8_MapperSchemaCheck ==
    ((MapperDone \/ MapperFailed)
        /\ \E k \in DOMAIN RequiredA : RequiredA[k] \notin Labels(sheet0))
    => (MapperFailed /\ shipments = before)

\* C9: the Reconciler output has the six schema columns and every row of it
\* has the driver_identifier "unknown", whether or not a sheet carries a
\* driver_identifier of its own.
C9_SentinelInvariant ==
    SummaryReady =>
        /\ shipment_summary.cols = TableColumns
        /\ \A r \in DOMAIN shipment_summary.rows : shipment_summary.rows[r][6] = "unknown"

C9_Witness ==
    /\ SummaryReady
    /\ shipment_summary.rows # <<>>
    /\ "driver_identifier" \in Labels(sheet2)

\* C10, as claimed: after a successful run every record the run appended has
\* a quantity of at least 1.
C10_PositiveQuantity ==
    pc = "done" =>
        \A i \in (Len(before) + 1)..Len(shipments) : shipments[i].quantity >= 1

\* C10, amended: after a successful run every record the Reconciler appended
\* has a quantity of at least 1, and the record the Mapper appended for input
\* row i has that row's product_quantity, whatever it is.
C10_QuantityAsComputed ==
    pc = "done" =>
        \A i \in (Len(before) + 1)..Len(shipments) :
            IF i - Len(before) <= Len(sheet0.rows)
            THEN shipments[i].quantity
                    = Cell(sheet0, sheet0.rows[i - Len(before)], "product_quantity")
            ELSE shipments[i].quantity >= 1

C10_Witness ==
    /\ pc = "done"
    /\ \E i \in (Len(before) + 1)..(Len(before) + Len(sheet0.rows)) :
          shipments[i].quantity = 0
    /\ Len(shipments) > Len(before) + Len(sheet0.rows)
====
